---- MODULE Spec2Model ----
(***************************************************************************)
(* Model of tools/parse_layout.py: the section splitter (split_file), the  *)
(* section parsers of Layout, the exit resolver (get_exits), the emitter   *)
(* (write_* and format_exits) and the __main__ driver.                     *)
(*                                                                         *)
(* A Python str is a sequence of one-character strings, a list is a        *)
(* sequence, None and the empty list are <<>> (both are falsy and the code *)
(* only tests truthiness), and a dict is a sequence of <<key, value>>      *)
(* pairs in insertion order.  Python indices are 0-based: s[k] is s[k+1].  *)
(***************************************************************************)
EXTENDS Integers, Sequences, FiniteSets, TLC

VARIABLES
    \* split_file
    f_lines,            \* the lines of the input stream f
    line_no,            \* number of lines the for loop has consumed
    sections,           \* split_file's local list "sections"
    section,            \* split_file's local "section" (<<>> is None)
    block,              \* split_file's local "block" (<<>> is None)
    split_pc,           \* "loop", "done", "crashed" (IndexError), "idle"
    \* Layout and __main__
    input,              \* what split_file returned: the sections to parse
    sec_no,             \* number of sections Layout.parse has dispatched
    region,             \* Layout.region (<<>> is None)
    location_prototypes,\* Layout.location_prototypes
    portal_prototypes,  \* Layout.portal_prototypes
    cols,               \* Layout.cols
    rows,               \* Layout.rows
    map_rows,           \* Layout.map_rows (<<>> is None)
    opened,             \* the output file has been opened for writing
    out,                \* what has been written to the output file
    num_locations,      \* write_locations' counter
    pc,                 \* position of the driver
    \* format_exits
    fmt_in,             \* the argument "exits" of format_exits
    fmt_text,           \* the local string "exits"
    fmt_lines,          \* the local list "lines"
    fmt_result,         \* the returned string, as the list that is joined
    fmt_pc              \* "start", "loop", "done", "idle"

splitVars == <<f_lines, line_no, sections, section, block, split_pc>>
layoutVars == <<input, sec_no, region, location_prototypes, portal_prototypes,
                cols, rows, map_rows, opened, out, num_locations, pc>>
fmtVars == <<fmt_in, fmt_text, fmt_lines, fmt_result, fmt_pc>>
vars == <<splitVars, layoutVars, fmtVars>>

(***************************************************************************)
(* Python str and list primitives.                                         *)
(***************************************************************************)
Whitespace == {" ", "\t", "\n"}

Max(a, b) == IF a >= b THEN a ELSE b

RECURSIVE rstrip(_)
rstrip(s) ==
    IF s # <<>> /\ s[Len(s)] \in Whitespace
    THEN rstrip(SubSeq(s, 1, Len(s) - 1))
    ELSE s

RECURSIVE lstrip(_)
lstrip(s) ==
    IF s # <<>> /\ Head(s) \in Whitespace THEN lstrip(Tail(s)) ELSE s

startswith(s, prefix) ==
    Len(s) >= Len(prefix) /\ SubSeq(s, 1, Len(prefix)) = prefix

\* The longest prefix of s without whitespace: the first token of s.split().
RECURSIVE FirstToken(_)
FirstToken(s) ==
    IF s = <<>> \/ Head(s) \in Whitespace THEN <<>>
    ELSE <<Head(s)>> \o FirstToken(Tail(s))

\* s.split(None, 1): at most two parts, the second one keeping its tail.
SplitOnce(s) ==
    LET t == lstrip(s)
        first == FirstToken(t)
        rest == lstrip(SubSeq(t, Len(first) + 1, Len(t)))
    IN  IF t = <<>> THEN <<>>
        ELSE IF rest = <<>> THEN <<first>>
        ELSE <<first, rest>>

\* s.split(): the whitespace-separated tokens of s.
RECURSIVE split(_)
split(s) ==
    LET t == lstrip(s)
        first == FirstToken(t)
    IN  IF t = <<>> THEN <<>>
        ELSE <<first>> \o split(SubSeq(t, Len(first) + 1, Len(t)))

\* s.ljust(n)
ljust(s, n) == s \o [k \in 1..(n - Len(s)) |-> " "]

Blanks(n) == [k \in 1..n |-> " "]

(***************************************************************************)
(* split_file                                                              *)
(***************************************************************************)
Hash == <<"#">>
Marker == <<"!", "!">>

\* The lines a file is made of in this model: a comment, an empty line, a
\* line of blanks, markers of two sections, a marker without a name, and
\* two data lines (one with trailing blanks).
FileLineSet ==
    { <<"#", "c">>, <<>>, <<" ">>, <<"!", "!", " ", "m">>, <<"!", "!", " ", "r">>, <<"!", "!">>, <<"a">>, <<"b", " ">> }

MaxFileLines == 4       \* lines of a file given to split_file

Files == UNION { [1..n -> FileLineSet] : n \in 0..MaxFileLines }

SplitIdle ==
    /\ f_lines = <<>> /\ line_no = 0 /\ sections = <<>>
    /\ section = <<>> /\ block = <<>> /\ split_pc = "idle"

\* One iteration of "for line in f", for a comment line.
SplitComment ==
    /\ split_pc = "loop" /\ line_no < Len(f_lines)
    /\ LET line == rstrip(f_lines[line_no + 1]) IN
        /\ startswith(line, Hash)
        /\ line_no' = line_no + 1
        /\ UNCHANGED <<f_lines, sections, section, block, split_pc>>
        /\ UNCHANGED <<layoutVars, fmtVars>>

\* One iteration for an empty line: the open block goes to the section.
SplitBlank ==
    /\ split_pc = "loop" /\ line_no < Len(f_lines)
    /\ LET line == rstrip(f_lines[line_no + 1]) IN
        /\ ~startswith(line, Hash)
        /\ Len(line) = 0
        /\ line_no' = line_no + 1
        /\ IF block # <<>>
           THEN section' = Append(section, block) /\ block' = <<>>
           ELSE UNCHANGED <<section, block>>
        /\ UNCHANGED <<f_lines, sections, split_pc>>
        /\ UNCHANGED <<layoutVars, fmtVars>>

\* One iteration for a line that starts with "!!".
SplitMarker ==
    /\ split_pc = "loop" /\ line_no < Len(f_lines)
    /\ LET line == rstrip(f_lines[line_no + 1])
           parts == SplitOnce(line)
       IN
        /\ ~startswith(line, Hash)
        /\ Len(line) # 0
        /\ startswith(line, Marker)
        /\ line_no' = line_no + 1
        /\ sections' = IF section # <<>> THEN Append(sections, section)
                       ELSE sections
        /\ IF Len(parts) < 2
           THEN \* line.split(None, 1)[1] raises IndexError
                /\ split_pc' = "crashed"
                /\ UNCHANGED section
           ELSE /\ section' = <<parts[2]>>
                /\ UNCHANGED split_pc
        /\ UNCHANGED <<f_lines, block>>
        /\ UNCHANGED <<layoutVars, fmtVars>>

\* One iteration for any other line.
SplitData ==
    /\ split_pc = "loop" /\ line_no < Len(f_lines)
    /\ LET line == rstrip(f_lines[line_no + 1]) IN
        /\ ~startswith(line, Hash)
        /\ Len(line) # 0
        /\ ~startswith(line, Marker)
        /\ line_no' = line_no + 1
        /\ IF section # <<>>
           THEN block' = IF block # <<>> THEN Append(block, line) ELSE <<line>>
           ELSE UNCHANGED block
        /\ UNCHANGED <<f_lines, sections, section, split_pc>>
        /\ UNCHANGED <<layoutVars, fmtVars>>

\* After the loop: flush the open block and section, return sections.
SplitReturn ==
    /\ split_pc = "loop" /\ line_no = Len(f_lines)
    /\ split_pc' = "done"
    /\ section' = IF section # <<>> /\ block # <<>>
                  THEN Append(section, block) ELSE section
    /\ sections' = IF section # <<>> THEN Append(sections, section')
                   ELSE sections
    /\ UNCHANGED <<f_lines, line_no, block>>
    /\ UNCHANGED <<layoutVars, fmtVars>>



(***************************************************************************)
(* Characters: the printable ASCII range, code points 32..126 (the grave   *)
(* accent, code point 96, is written "grave").                             *)
(***************************************************************************)
Ascii ==
    << " ", "!", "\"", "#", "$", "%", "&", "'", "(", ")", "*", "+",
       ",", "-", ".", "/", "0", "1", "2", "3", "4", "5", "6", "7",
       "8", "9", ":", ";", "<", "=", ">", "?", "@", "A", "B", "C",
       "D", "E", "F", "G", "H", "I", "J", "K", "L", "M", "N", "O",
       "P", "Q", "R", "S", "T", "U", "V", "W", "X", "Y", "Z", "[",
       "\\", "]", "^", "_", "grave", "a", "b", "c", "d", "e", "f", "g",
       "h", "i", "j", "k", "l", "m", "n", "o", "p", "q", "r", "s",
       "t", "u", "v", "w", "x", "y", "z", "{", "|", "}", "~" >>

ord(c) == 31 + (CHOOSE n \in 1..Len(Ascii) : Ascii[n] = c)

chr(n) == Ascii[n - 31]

\* sorted(s) for a sequence of characters (insertion sort, stable).
RECURSIVE InsertChar(_, _)
InsertChar(c, s) ==
    IF s = <<>> THEN <<c>>
    ELSE IF ord(c) < ord(Head(s)) THEN <<c>> \o s
    ELSE <<Head(s)>> \o InsertChar(c, Tail(s))

RECURSIVE sorted(_)
sorted(s) ==
    IF s = <<>> THEN <<>>
    ELSE InsertChar(s[Len(s)], sorted(SubSeq(s, 1, Len(s) - 1)))

\* a < b for two Python strings.
RECURSIVE StrLess(_, _)
StrLess(a, b) ==
    IF b = <<>> THEN FALSE
    ELSE IF a = <<>> THEN TRUE
    ELSE IF Head(a) # Head(b) THEN ord(Head(a)) < ord(Head(b))
    ELSE StrLess(Tail(a), Tail(b))

\* str(n) for n >= 0.
RECURSIVE str(_)
str(n) ==
    IF n < 10 THEN <<chr(ord("0") + n)>>
    ELSE str(n \div 10) \o <<chr(ord("0") + (n % 10))>>

\* f"{n:02}" for n >= 0.
Format02(n) == IF n < 10 THEN <<"0">> \o str(n) ELSE str(n)

\* sep.join(parts)
RECURSIVE join(_, _)
join(sep, parts) ==
    IF parts = <<>> THEN <<>>
    ELSE IF Len(parts) = 1 THEN parts[1]
    ELSE parts[1] \o sep \o join(sep, Tail(parts))

\* s.rfind(c, 0, end): the highest 0-based index below end that holds c,
\* or -1.
RECURSIVE rfind(_, _, _)
rfind(s, c, end) ==
    LET e == IF end > Len(s) THEN Len(s) ELSE end IN
    IF e <= 0 THEN -1
    ELSE IF s[e] = c THEN e - 1
    ELSE rfind(s, c, e - 1)

(***************************************************************************)
(* Layout.format_exits                                                     *)
(***************************************************************************)
WrapWidth == 90

ContinuationIndent == <<" ", " ", " ", " ", " ", " ", " ", " ", " ", " ">>

\* f"{portal} -> '{dir_name} to {dest}" for one exit (portal, dir_name, dest).
FormatExit(e) == e[1] \o <<" ", "-", ">", " ", "'">> \o e[2] \o <<" ", "t", "o", " ">> \o e[3]

\* The string "exits" before the loop.
ExitsText(exits) ==
    <<"e", "x", "i", "t", "s", " ", "=", " ", "[">>
        \o join(<<",", " ">>, [k \in 1..Len(exits) |-> FormatExit(exits[k])])
        \o <<"]">>

\* A variant of the wrap position: the first comma instead of the last.
WrapPoint_FirstComma(text) ==
    LET found == { n \in 1..WrapWidth : n <= Len(text) /\ text[n] = "," } IN
    IF found = {} THEN -1
    ELSE (CHOOSE n \in found : \A m \in found : n <= m) - 1

\* The wrap position of one loop iteration.
WrapPoint(text) == rfind(text, ",", WrapWidth)

\* The loop runs another iteration that wraps.
Wraps(text) == Len(text) > WrapWidth /\ WrapPoint(text) # -1

\* The while loop and the final append: the list "lines".
RECURSIVE WrapLines(_, _)
WrapLines(text, lines) ==
    IF Wraps(text)
    THEN LET p == WrapPoint(text) IN
         WrapLines(ContinuationIndent \o SubSeq(text, p + 2, Len(text)),
                   Append(lines, SubSeq(text, 1, p + 1)))
    ELSE Append(lines, text)

format_exits(exits) == join(<<"\n">>, WrapLines(ExitsText(exits), <<>>))

(***************************************************************************)
(* dict: a sequence of <<key, value>> pairs in insertion order.            *)
(***************************************************************************)
DictHas(d, k) == \E n \in 1..Len(d) : d[n][1] = k

DictGet(d, k) == d[CHOOSE n \in 1..Len(d) : d[n][1] = k][2]

\* d[k] = v: a new key goes last, an old key keeps its place.
DictSet(d, k, v) ==
    IF DictHas(d, k)
    THEN [n \in 1..Len(d) |-> IF d[n][1] = k THEN <<k, v>> ELSE d[n]]
    ELSE Append(d, <<k, v>>)

DictValues(d) == [n \in 1..Len(d) |-> d[n][2]]

\* s[k] with Python's indices: k in -len..len-1, negative ones from the end.
PyIndexOk(s, k) == -Len(s) <= k /\ k < Len(s)

PyAt(s, k) == s[(IF k < 0 THEN k + Len(s) ELSE k) + 1]

(***************************************************************************)
(* Layout: the section parsers                                             *)
(***************************************************************************)
RegionName == <<"r", "e", "g", "i", "o", "n">>
MapName == <<"m", "a", "p">>
LocationName == <<"l", "o", "c", "a", "t", "i", "o", "n">>
PortalName == <<"p", "o", "r", "t", "a", "l">>

\* The section Layout.parse dispatches next.
NextSection == input[sec_no + 1]

\* A variant of the test that looks at the connector rows instead.
MapLineRejected_OddRows(i, line) == i % 2 = 1 /\ Len(line) % 2 = 0

\* parse_map's test of line i of the block.
MapLineRejected(i, line) == i % 2 = 0 /\ Len(line) % 2 = 0

\* The number of columns a line accounts for.
MapLineCols(line) == (Len(line) + 1) \div 2

\* The for loop of parse_map from line i on: whether it raised, and
\* self.cols when it ended.
RECURSIVE MapLineLoop(_, _, _)
MapLineLoop(blk, i, c) ==
    IF i >= Len(blk) THEN [raised |-> FALSE, cols |-> c]
    ELSE IF MapLineRejected(i, blk[i + 1]) THEN [raised |-> TRUE, cols |-> c]
    ELSE MapLineLoop(blk, i + 1, Max(c, MapLineCols(blk[i + 1])))

\* A variant of the padding that does not fill the row up.
PadRow_NoJustify(line, c) == <<" ", " ">> \o line

\* One padded row of map_rows.
PadRow(line, c) == <<" ", " ">> \o ljust(line, 2 * c + 1)

\* map_rows for a block and its column count.
PaddedRows(blk, c) ==
    LET empty_row == Blanks(2 * c + 3) IN
    <<empty_row, empty_row>>
        \o [k \in 1..Len(blk) |-> PadRow(blk[k], c)]
        \o <<empty_row, empty_row>>

\* One block of the location section: the key and the stored list.
LocationHeaderOk(blk) == Len(split(Head(blk))) >= 2

LocationEntry(blk) ==
    LET parts == split(Head(blk))
        proto == IF Len(parts) = 3 THEN parts[3] ELSE LocationName
    IN  <<parts[1], <<parts[2], proto>> \o Tail(blk)>>

\* The loop of parse_locations: the table, and whether a header raised
\* IndexError.
RECURSIVE LocationBlocks(_, _)
LocationBlocks(blocks, d) ==
    IF blocks = <<>> THEN [raised |-> FALSE, table |-> d]
    ELSE IF ~LocationHeaderOk(Head(blocks)) THEN [raised |-> TRUE, table |-> d]
    ELSE LET e == LocationEntry(Head(blocks)) IN
         LocationBlocks(Tail(blocks), DictSet(d, e[1], e[2]))

\* next(i for i, item in enumerate(parts) if len(item) != 2), or -1 when
\* the generator is exhausted (StopIteration).
RECURSIVE NumKeysFrom(_, _)
NumKeysFrom(parts, i) ==
    IF i >= Len(parts) THEN -1
    ELSE IF Len(parts[i + 1]) # 2 THEN i
    ELSE NumKeysFrom(parts, i + 1)

\* The normalised form of a portal key.
NormalKey(key) == sorted(key)

\* for key in parts[:num_keys]: self.portal_prototypes[sorted key] = value
RECURSIVE StoreKeys(_, _, _)
StoreKeys(d, keys, value) ==
    IF keys = <<>> THEN d
    ELSE StoreKeys(DictSet(d, NormalKey(Head(keys)), value), Tail(keys), value)

\* The loop of parse_portals.
RECURSIVE PortalBlocks(_, _)
PortalBlocks(blocks, d) ==
    IF blocks = <<>> THEN [raised |-> FALSE, table |-> d]
    ELSE
        LET blk == Head(blocks)
            parts == split(Head(blk))
            num_keys == NumKeysFrom(parts, 0)
            name == parts[num_keys + 1]
            proto == IF Len(parts) > num_keys + 1 THEN parts[num_keys + 2]
                     ELSE <<>>
        IN  IF num_keys = -1 THEN [raised |-> TRUE, table |-> d]
            ELSE PortalBlocks(Tail(blocks),
                     StoreKeys(d, SubSeq(parts, 1, num_keys),
                               <<name, proto>> \o Tail(blk)))

\* Layout.parse, one section per step.
ParseRegion ==
    /\ pc = "parse" /\ sec_no < Len(input)
    /\ Head(NextSection) = RegionName
    /\ sec_no' = sec_no + 1
    /\ LET blocks == Tail(NextSection) IN
        IF Len(blocks) # 1
        THEN pc' = "failed" /\ UNCHANGED region
        ELSE region' = blocks[1] /\ UNCHANGED pc
    /\ UNCHANGED <<input, location_prototypes, portal_prototypes, cols, rows,
                   map_rows, opened, out, num_locations>>
    /\ UNCHANGED <<splitVars, fmtVars>>

ParseMap ==
    /\ pc = "parse" /\ sec_no < Len(input)
    /\ Head(NextSection) = MapName
    /\ sec_no' = sec_no + 1
    /\ LET blocks == Tail(NextSection) IN
        IF Len(blocks) # 1
        THEN pc' = "failed" /\ UNCHANGED <<cols, rows, map_rows>>
        ELSE
            LET blk == blocks[1]
                loop == MapLineLoop(blk, 0, 0)
            IN  /\ cols' = loop.cols
                /\ IF loop.raised \/ Len(blk) % 2 = 0
                   THEN pc' = "failed" /\ UNCHANGED <<rows, map_rows>>
                   ELSE /\ rows' = (Len(blk) + 1) \div 2
                        /\ map_rows' = PaddedRows(blk, loop.cols)
                        /\ UNCHANGED pc
    /\ UNCHANGED <<input, region, location_prototypes, portal_prototypes,
                   opened, out, num_locations>>
    /\ UNCHANGED <<splitVars, fmtVars>>

ParseLocations ==
    /\ pc = "parse" /\ sec_no < Len(input)
    /\ Head(NextSection) = LocationName
    /\ sec_no' = sec_no + 1
    /\ LET r == LocationBlocks(Tail(NextSection), location_prototypes) IN
        /\ location_prototypes' = r.table
        /\ pc' = IF r.raised THEN "crashed" ELSE pc
    /\ UNCHANGED <<input, region, portal_prototypes, cols, rows, map_rows,
                   opened, out, num_locations>>
    /\ UNCHANGED <<splitVars, fmtVars>>

ParsePortals ==
    /\ pc = "parse" /\ sec_no < Len(input)
    /\ Head(NextSection) = PortalName
    /\ sec_no' = sec_no + 1
    /\ LET r == PortalBlocks(Tail(NextSection), portal_prototypes) IN
        /\ portal_prototypes' = r.table
        /\ pc' = IF r.raised THEN "crashed" ELSE pc
    /\ UNCHANGED <<input, region, location_prototypes, cols, rows, map_rows,
                   opened, out, num_locations>>
    /\ UNCHANGED <<splitVars, fmtVars>>

\* raise RuntimeError(f"invalid section {name}")
ParseInvalid ==
    /\ pc = "parse" /\ sec_no < Len(input)
    /\ Head(NextSection) \notin {RegionName, MapName, LocationName, PortalName}
    /\ sec_no' = sec_no + 1
    /\ pc' = "failed"
    /\ UNCHANGED <<input, region, location_prototypes, portal_prototypes,
                   cols, rows, map_rows, opened, out, num_locations>>
    /\ UNCHANGED <<splitVars, fmtVars>>

\* Layout.parse returns and the input file is closed.
ParseReturn ==
    /\ pc = "parse" /\ sec_no = Len(input)
    /\ pc' = "open"
    /\ UNCHANGED <<input, sec_no, region, location_prototypes,
                   portal_prototypes, cols, rows, map_rows, opened, out,
                   num_locations>>
    /\ UNCHANGED <<splitVars, fmtVars>>

(***************************************************************************)
(* Layout: labels and the exit resolver                                    *)
(***************************************************************************)
col_label(i) ==
    IF i < 26 THEN chr(ord("A") + i) ELSE chr(ord("a") + (i - 26))

\* f"{j:02}"
RowLabel(j) == IF j < 0 THEN <<"-">> \o str(-j) ELSE Format02(j)

location_suffix(i, j) == <<col_label(i)>> \o RowLabel(j)

\* Defined when the letter has a location prototype (else KeyError).
location_label(letter, i, j) ==
    DictGet(location_prototypes, <<letter>>)[1]
        \o <<"_">> \o location_suffix(i, j)

\* A variant of the list with west and southwest in the other order.
exit_directions_Reordered ==
    << <<-1, -1, <<"n", "o", "r", "t", "h", "w", "e", "s", "t">>>>,
       <<-1,  1, <<"s", "o", "u", "t", "h", "w", "e", "s", "t">>>>,
       <<-1,  0, <<"w", "e", "s", "t">>>>,
       << 0, -1, <<"n", "o", "r", "t", "h">>>>,
       << 0,  1, <<"s", "o", "u", "t", "h">>>>,
       << 1, -1, <<"n", "o", "r", "t", "h", "e", "a", "s", "t">>>>,
       << 1,  0, <<"e", "a", "s", "t">>>>,
       << 1,  1, <<"s", "o", "u", "t", "h", "e", "a", "s", "t">>>> >>

\* A variant of the list without the diagonal directions.
exit_directions_Orthogonal ==
    << <<-1,  0, <<"w", "e", "s", "t">>>>,
       << 0, -1, <<"n", "o", "r", "t", "h">>>>,
       << 0,  1, <<"s", "o", "u", "t", "h">>>>,
       << 1,  0, <<"e", "a", "s", "t">>>> >>

\* A variant of the list that calls the offset (-1, 1) southeast.
exit_directions_Misnamed ==
    << <<-1, -1, <<"n", "o", "r", "t", "h", "w", "e", "s", "t">>>>,
       <<-1,  0, <<"w", "e", "s", "t">>>>,
       <<-1,  1, <<"s", "o", "u", "t", "h", "e", "a", "s", "t">>>>,
       << 0, -1, <<"n", "o", "r", "t", "h">>>>,
       << 0,  1, <<"s", "o", "u", "t", "h">>>>,
       << 1, -1, <<"n", "o", "r", "t", "h", "e", "a", "s", "t">>>>,
       << 1,  0, <<"e", "a", "s", "t">>>>,
       << 1,  1, <<"s", "o", "u", "t", "h", "e", "a", "s", "t">>>> >>

exit_directions ==
    << <<-1, -1, <<"n", "o", "r", "t", "h", "w", "e", "s", "t">>>>,
       <<-1,  0, <<"w", "e", "s", "t">>>>,
       <<-1,  1, <<"s", "o", "u", "t", "h", "w", "e", "s", "t">>>>,
       << 0, -1, <<"n", "o", "r", "t", "h">>>>,
       << 0,  1, <<"s", "o", "u", "t", "h">>>>,
       << 1, -1, <<"n", "o", "r", "t", "h", "e", "a", "s", "t">>>>,
       << 1,  0, <<"e", "a", "s", "t">>>>,
       << 1,  1, <<"s", "o", "u", "t", "h", "e", "a", "s", "t">>>> >>

\* Buffer coordinates of the logical column i or row j.
BufferPos(i) == 2 + i * 2

\* rows[y][x] can be read without IndexError.
CellOk(x, y) == PyIndexOk(map_rows, y) /\ PyIndexOk(PyAt(map_rows, y), x)

\* rows[y][x]
CellAt(x, y) == PyAt(PyAt(map_rows, y), x)

\* The connector cell get_exits reads for cell (x, y) and offset (dx, dy).
LinkX(x, dx) == x + dx

LinkY(y, dy) == y + dy

\* The portal key of two letters: their sorted join.
PortalKey(letter, dest_letter) == sorted(<<letter, dest_letter>>)

\* The loop of get_exits from direction d on: whether it raised (KeyError or
\* IndexError) and the list "exits".
RECURSIVE ExitsFrom(_, _, _, _, _)
ExitsFrom(d, letter, i, j, exits) ==
    IF d > Len(exit_directions) THEN [raised |-> FALSE, exits |-> exits]
    ELSE
        LET dx == exit_directions[d][1]
            dy == exit_directions[d][2]
            dir_name == exit_directions[d][3]
            x == BufferPos(i)
            y == BufferPos(j)
            dest_letter == CellAt(x + dx * 2, y + dy * 2)
            portal_key == PortalKey(letter, dest_letter)
        IN  IF ~CellOk(LinkX(x, dx), LinkY(y, dy))
            THEN [raised |-> TRUE, exits |-> exits]
            ELSE IF CellAt(LinkX(x, dx), LinkY(y, dy)) = " "
            THEN ExitsFrom(d + 1, letter, i, j, exits)
            ELSE IF \/ ~CellOk(x + dx * 2, y + dy * 2)
                    \/ ~DictHas(location_prototypes, <<dest_letter>>)
                    \/ ~DictHas(portal_prototypes, portal_key)
            THEN [raised |-> TRUE, exits |-> exits]
            ELSE ExitsFrom(d + 1, letter, i, j,
                     Append(exits,
                            << DictGet(portal_prototypes, portal_key)[1],
                               dir_name,
                               location_label(dest_letter, i + dx, j + dy) >>))

get_exits(letter, i, j) == ExitsFrom(1, letter, i, j, <<>>)

(***************************************************************************)
(* Layout: the emitter.  The output file is the sequence of what was       *)
(* written: a definition (write_definition's prefix and attribute lines,   *)
(* the braces and the two-space indent being fixed text) or a line of      *)
(* other text.                                                             *)
(***************************************************************************)
Definition(prefix, attrs) == [kind |-> "def", prefix |-> prefix, attrs |-> attrs]

Text(line) == [kind |-> "text", prefix |-> line, attrs |-> <<>>]

\* write_prototypes(blocks, f)
write_prototypes(blocks) ==
    [k \in 1..Len(blocks) |->
        Definition(<<"d", "e", "f", " ", "e", "n", "t", "i", "t", "y", " ">> \o blocks[k][1] \o <<":", " ">> \o blocks[k][2],
                   SubSeq(blocks[k], 3, Len(blocks[k])))]

\* A variant of the dict "unique" that keeps the first entry of a name.
RECURSIVE UniqueByName_FirstWins(_, _)
UniqueByName_FirstWins(protos, unique) ==
    IF protos = <<>> THEN unique
    ELSE UniqueByName_FirstWins(Tail(protos),
             IF DictHas(unique, Head(protos)[1]) THEN unique
             ELSE DictSet(unique, Head(protos)[1], Head(protos)))

\* The dict "unique" of write_portal_prototypes.
RECURSIVE UniqueByName(_, _)
UniqueByName(protos, unique) ==
    IF protos = <<>> THEN unique
    ELSE UniqueByName(Tail(protos), DictSet(unique, Head(protos)[1], Head(protos)))

\* sorted(self.location_prototypes.items()): by key.
RECURSIVE InsertItem(_, _)
InsertItem(item, s) ==
    IF s = <<>> THEN <<item>>
    ELSE IF StrLess(item[1], Head(s)[1]) THEN <<item>> \o s
    ELSE <<Head(s)>> \o InsertItem(item, Tail(s))

RECURSIVE SortedItems(_)
SortedItems(d) ==
    IF d = <<>> THEN <<>>
    ELSE InsertItem(d[Len(d)], SortedItems(SubSeq(d, 1, Len(d) - 1)))

\* The lines write_map writes.
MapComment ==
    LET shown == SubSeq(map_rows, 2, Len(map_rows) - 1)
        legend == SortedItems(location_prototypes)
    IN  << Text(<<"/", "*">>),
           Text(<<" ", " ", " ", " ">> \o join(<<" ">>, [k \in 1..cols |-> <<col_label(k - 1)>>])) >>
        \o [k \in 1..Len(shown) |->
               Text((IF (k - 1) % 2 = 1 THEN Format02((k - 1) \div 2) ELSE <<" ", " ">>)
                    \o rstrip(shown[k]))]
        \o [k \in 1..Len(legend) |->
               Text(<<" ", " ">> \o legend[k][1] \o <<" ", "=", " ">> \o legend[k][2][1])]
        \o << Text(<<"*", "/">>) >>

\* A variant of the test that takes "." for a letter.
Occupied_DotCounts(letter) == letter # " "

\* write_locations' test of a cell's letter.
Occupied(letter) == letter # " " /\ letter # "."

\* The first loop of write_locations: the dict "groups", scanning the cells
\* row by row from cell number k on.
RECURSIVE ScanCells(_, _)
ScanCells(k, groups) ==
    IF k >= rows * cols THEN groups
    ELSE
        LET j == k \div cols
            i == k % cols
            letter == CellAt(BufferPos(i), BufferPos(j))
        IN  ScanCells(k + 1,
                IF Occupied(letter)
                THEN DictSet(groups, letter,
                             Append(IF DictHas(groups, letter)
                                    THEN DictGet(groups, letter) ELSE <<>>,
                                    <<i, j>>))
                ELSE groups)

\* write_location(letter, i, j): the definition written.
LocationDefinition(letter, i, j) ==
    Definition(<<"d", "e", "f", " ", "l", "o", "c", "a", "t", "i", "o", "n", " ">> \o location_label(letter, i, j) \o <<":", " ">>
                   \o DictGet(location_prototypes, <<letter>>)[1],
               << format_exits(get_exits(letter, i, j).exits) >>)

\* The inner loop of write_locations over the cells of one letter.  st holds
\* the output, num_locations and whether an exception ended the run.
RECURSIVE WriteCells(_, _, _)
WriteCells(letter, ijs, st) ==
    IF ijs = <<>> \/ st.raised THEN st
    ELSE
        LET i == Head(ijs)[1]
            j == Head(ijs)[2]
        IN  WriteCells(letter, Tail(ijs),
                IF get_exits(letter, i, j).raised
                THEN [st EXCEPT !.n = @ + 1, !.raised = TRUE]
                ELSE [st EXCEPT !.n = @ + 1,
                                !.out = Append(@, LocationDefinition(letter, i, j))])

\* The outer loop of write_locations over the groups.
RECURSIVE WriteGroups(_, _)
WriteGroups(groups, st) ==
    IF groups = <<>> \/ st.raised THEN st
    ELSE
        LET letter == Head(groups)[1]
            ijs == Head(groups)[2]
        IN  IF ~DictHas(location_prototypes, <<letter>>)
            THEN [st EXCEPT !.raised = TRUE]
            ELSE WriteGroups(Tail(groups),
                    WriteCells(letter, ijs,
                        [st EXCEPT !.out =
                            Append(@, Text(<<"/", "/", "#", " ">>
                                \o DictGet(location_prototypes, <<letter>>)[1]))
                            \o write_prototypes(
                                << DictGet(location_prototypes, <<letter>>) >>)]))

(***************************************************************************)
(* __main__: open the output file and save the layout.                     *)
(***************************************************************************)
OpenOutput ==
    /\ pc = "open"
    /\ opened' = TRUE
    /\ out' = <<>>
    /\ pc' = "write_region"
    /\ UNCHANGED <<input, sec_no, region, location_prototypes,
                   portal_prototypes, cols, rows, map_rows, num_locations>>
    /\ UNCHANGED <<splitVars, fmtVars>>

\* write_region; unpacking None raises TypeError.
WriteRegion ==
    /\ pc = "write_region"
    /\ IF region = <<>>
       THEN pc' = "crashed" /\ UNCHANGED out
       ELSE /\ out' = Append(out, Definition(<<"d", "e", "f", " ", "r", "e", "g", "i", "o", "n", " ">> \o Head(region),
                                             Tail(region)))
            /\ pc' = "write_map"
    /\ UNCHANGED <<input, sec_no, region, location_prototypes,
                   portal_prototypes, cols, rows, map_rows, opened,
                   num_locations>>
    /\ UNCHANGED <<splitVars, fmtVars>>

\* write_map; without a map section self.cols does not exist.
WriteMap ==
    /\ pc = "write_map"
    /\ IF map_rows = <<>>
       THEN pc' = "crashed" /\ UNCHANGED out
       ELSE out' = out \o MapComment /\ pc' = "write_portal_prototypes"
    /\ UNCHANGED <<input, sec_no, region, location_prototypes,
                   portal_prototypes, cols, rows, map_rows, opened,
                   num_locations>>
    /\ UNCHANGED <<splitVars, fmtVars>>

WritePortalPrototypes ==
    /\ pc = "write_portal_prototypes"
    /\ out' = Append(out, Text(<<"/", "/", "#", " ", "p", "o", "r", "t", "a", "l", " ", "p", "r", "o", "t", "o", "t", "y", "p", "e", "s">>))
                \o write_prototypes(
                       DictValues(UniqueByName(DictValues(portal_prototypes), <<>>)))
    /\ pc' = "write_locations"
    /\ UNCHANGED <<input, sec_no, region, location_prototypes,
                   portal_prototypes, cols, rows, map_rows, opened,
                   num_locations>>
    /\ UNCHANGED <<splitVars, fmtVars>>

\* write_locations; a KeyError leaves what was written so far.
WriteLocations ==
    /\ pc = "write_locations"
    /\ \E st \in { WriteGroups(ScanCells(0, <<>>),
                                [out |-> out, n |-> 0, raised |-> FALSE]) } :
           /\ out' = st.out
           /\ num_locations' = st.n
           /\ pc' = IF st.raised THEN "crashed" ELSE "done"
    /\ UNCHANGED <<input, sec_no, region, location_prototypes,
                   portal_prototypes, cols, rows, map_rows, opened>>
    /\ UNCHANGED <<splitVars, fmtVars>>

(***************************************************************************)
(* format_exits, one loop iteration per step                               *)
(***************************************************************************)
FormatStart ==
    /\ fmt_pc = "start"
    /\ fmt_text' = ExitsText(fmt_in)
    /\ fmt_lines' = <<>>
    /\ fmt_pc' = "loop"
    /\ UNCHANGED <<fmt_in, fmt_result>>
    /\ UNCHANGED <<splitVars, layoutVars>>

\* An iteration of the while loop that finds a comma.
FormatWrap ==
    /\ fmt_pc = "loop"
    /\ Len(fmt_text) > WrapWidth
    /\ WrapPoint(fmt_text) # -1
    /\ LET p == WrapPoint(fmt_text) IN
        /\ fmt_lines' = Append(fmt_lines, SubSeq(fmt_text, 1, p + 1))
        /\ fmt_text' = ContinuationIndent \o SubSeq(fmt_text, p + 2, Len(fmt_text))
    /\ UNCHANGED <<fmt_in, fmt_result, fmt_pc>>
    /\ UNCHANGED <<splitVars, layoutVars>>

\* The loop ends because the text fits.
FormatFits ==
    /\ fmt_pc = "loop"
    /\ Len(fmt_text) <= WrapWidth
    /\ fmt_lines' = Append(fmt_lines, fmt_text)
    /\ fmt_result' = join(<<"\n">>, fmt_lines')
    /\ fmt_pc' = "done"
    /\ UNCHANGED <<fmt_in, fmt_text>>
    /\ UNCHANGED <<splitVars, layoutVars>>

\* The loop ends by break: no comma in the first WrapWidth characters.
FormatBreak ==
    /\ fmt_pc = "loop"
    /\ Len(fmt_text) > WrapWidth
    /\ WrapPoint(fmt_text) = -1
    /\ fmt_lines' = Append(fmt_lines, fmt_text)
    /\ fmt_result' = join(<<"\n">>, fmt_lines')
    /\ fmt_pc' = "done"
    /\ UNCHANGED <<fmt_in, fmt_text>>
    /\ UNCHANGED <<splitVars, layoutVars>>

(***************************************************************************)
(* Bounds and inputs                                                       *)
(***************************************************************************)
MaxCells == 4           \* a grid has at most MaxCells cells (cols * rows)
MaxSpecial == 1         \* cells of a grid that differ from its base letter
MaxPortalBlocks == 2    \* blocks of a portal section
MaxMapLines == 3        \* lines of a map block of arbitrary shape
MaxLineLen == 3         \* length of such a line
MaxExits == 4           \* entries of a list given to format_exits
MediumNameLen == 40     \* length of a medium portal name
LongNameLen == 90       \* length of a long portal name

\* All sequences over S of length lo..hi.
SeqsOf(S, lo, hi) == UNION { [1..n -> S] : n \in lo..hi }

\* --- grids: the map blocks of well-formed layouts ---
GridShapes ==
    { s \in (1..MaxCells) \X (1..MaxCells) : s[1] * s[2] <= MaxCells }

\* Positions of the block of a grid of c columns and r rows.
CellPositions(c, r) ==
    { p \in (0..2 * c - 2) \X (0..2 * r - 2) : p[1] % 2 = 0 /\ p[2] % 2 = 0 }

LinkPositions(c, r) ==
    { p \in (0..2 * c - 2) \X (0..2 * r - 2) : p[1] % 2 = 1 \/ p[2] % 2 = 1 }

\* The glyph an author draws at a connector position.
Glyph(p) ==
    IF p[1] % 2 = 1 /\ p[2] % 2 = 1 THEN "X"
    ELSE IF p[1] % 2 = 1 THEN "-"
    ELSE "|"

\* The letters of a grid: "A" everywhere but at up to MaxSpecial cells.
LetterMaps(c, r) ==
    { m \in [CellPositions(c, r) -> {"A", "B", ".", " "}] :
        Cardinality({ p \in CellPositions(c, r) : m[p] # "A" }) <= MaxSpecial }

\* The block of a grid: its lines as split_file stores them (stripped on
\* the right).
GridBlock(c, r, letters, links) ==
    [ y \in 1..(2 * r - 1) |->
        rstrip([ x \in 1..(2 * c - 1) |->
                    LET p == <<x - 1, y - 1>> IN
                    IF p \in CellPositions(c, r) THEN letters[p]
                    ELSE IF p \in links THEN Glyph(p)
                    ELSE " " ]) ]

\* split_file never puts an empty line into a block.
NoEmptyLine(blk) == \A k \in 1..Len(blk) : blk[k] # <<>>

GridBlocksOf(shapes) ==
    { blk \in UNION { { GridBlock(s[1], s[2], m, l) :
                            m \in LetterMaps(s[1], s[2]),
                            l \in SUBSET LinkPositions(s[1], s[2]) } :
                      s \in shapes } :
        NoEmptyLine(blk) }

GridBlocks == GridBlocksOf(GridShapes)

\* The grids of two cells side by side.
PairBlocks == GridBlocksOf({ <<2, 1>> })

\* --- prototypes ---
RegionBlock == << <<"r">>, <<"k", " ", "=", " ", "1">> >>

LocationBlockA == << <<"A", " ", "f">>, <<"k", " ", "=", " ", "2">> >>
LocationBlockB == << <<"B", " ", "c", " ", "l", "i", "b", ".", "c", "a", "v", "e">> >>

PortalBlockP == << <<"A", "A", " ", "B", "A", " ", "p", " ", "l", "i", "b", ".", "d", "o", "o", "r">>, <<"k", " ", "=", " ", "3">> >>
PortalBlockQ == << <<"B", "B", " ", "q">> >>

\* The location and portal blocks of a layout: all of them, or all but one.
AllPrototypes ==
    << <<LocationBlockA, LocationBlockB>>, <<PortalBlockP, PortalBlockQ>> >>

MissingPrototypes ==
    { << <<LocationBlockA>>,                 <<PortalBlockP, PortalBlockQ>> >>,
      << <<LocationBlockA, LocationBlockB>>, <<PortalBlockQ>> >>,
      << <<LocationBlockA, LocationBlockB>>, <<PortalBlockP>> >> }

Layout4(region_blocks, map_blocks, location_blocks, portal_blocks) ==
    << <<RegionName>> \o region_blocks,
       <<MapName>> \o map_blocks,
       <<LocationName>> \o location_blocks,
       <<PortalName>> \o portal_blocks >>

\* Every grid with all the prototypes it uses; the grids of two cells with
\* one prototype missing.
WellFormedInputs ==
    { Layout4(<<RegionBlock>>, <<g>>, AllPrototypes[1], AllPrototypes[2]) :
        g \in GridBlocks }
    \cup
    { Layout4(<<RegionBlock>>, <<g>>, pr[1], pr[2]) :
        g \in PairBlocks, pr \in MissingPrototypes }

\* --- portal sections of several blocks, around a one-line map ---
PortalBlockSet ==
    { << header \o <<" ">> \o name, attr >> :
        header \in { <<"A", "A">>, <<"B", "A">>, <<"A", "A", " ", "A", "B">> },
        name \in { <<"p">>, <<"q", " ", "l", "i", "b", ".", "d", "o", "o", "r">> },
        attr \in { <<"k", " ", "=", " ", "3">>, <<"k", " ", "=", " ", "4">> } }

PortalInputs ==
    { Layout4(<<RegionBlock>>, << <<<<"A", "-", "B">>>> >>,
              <<LocationBlockA, LocationBlockB>>, pbs) :
        pbs \in SeqsOf(PortalBlockSet, 0, MaxPortalBlocks) }

\* --- layouts with one structural fault ---
SampleGrid == << <<"A", "-", "B">>, <<"|">>, <<"A">> >>

FaultyMapBlocks ==
    { << <<"A", "-">> >>,                         \* letter row of even length
      << <<"A", "-", "B">>, <<"|">> >>,                 \* even number of lines
      << <<"A", "-", "B">>, <<"|", "X">>, <<"A", "-", "B">> >>,       \* connector row of even length
      << <<"A", "-", "B">>, <<"|">>, <<"A", "-", "B", "-">> >> }      \* later letter row of even length

FaultyInputs ==
    { Layout4(rb, <<SampleGrid>>, <<LocationBlockA, LocationBlockB>>,
              <<PortalBlockP, PortalBlockQ>>) :
        rb \in { <<>>, <<RegionBlock, RegionBlock>> } }
    \cup
    { Layout4(<<RegionBlock>>, mb, <<LocationBlockA, LocationBlockB>>,
              <<PortalBlockP, PortalBlockQ>>) :
        mb \in { <<>>, <<SampleGrid, SampleGrid>> }
                 \cup { <<b>> : b \in FaultyMapBlocks } }
    \cup
    { Layout4(<<RegionBlock>>, <<SampleGrid>>,
              <<LocationBlockA, LocationBlockB>>,
              <<PortalBlockP, PortalBlockQ>>) \o << <<<<"e", "x", "i", "t", "s">>>> >>,
      << <<<<"e", "x", "i", "t", "s">>, <<<<"x">>>> >> >>
          \o Layout4(<<RegionBlock>>, <<SampleGrid>>,
                     <<LocationBlockA, LocationBlockB>>,
                     <<PortalBlockP, PortalBlockQ>>),
      \* no region section at all
      << <<MapName, SampleGrid>>,
         <<LocationName, LocationBlockA, LocationBlockB>>,
         <<PortalName, PortalBlockP, PortalBlockQ>> >> }

\* --- map blocks of arbitrary shape ---
ShapeLines ==
    { s \in SeqsOf({"X", " "}, 1, MaxLineLen) : rstrip(s) = s }

ShapeBlocks == SeqsOf(ShapeLines, 1, MaxMapLines)

MapInputs ==
    { << <<MapName>> \o bs >> :
        bs \in { <<>> } \cup { <<b>> : b \in ShapeBlocks }
                 \cup { <<b, b>> : b \in SeqsOf(ShapeLines, 1, 1) } }

\* --- lists of exits for format_exits ---
XName(n) == [k \in 1..n |-> "x"]

FormatPortalNames ==
    { <<"p">>, <<"a", ",", "b">>, XName(MediumNameLen), XName(LongNameLen) }

FormatInputs ==
    SeqsOf({ <<name, <<"n", "o", "r", "t", "h">>, <<"f", "_", "A", "0", "0">>>> : name \in FormatPortalNames },
           0, MaxExits)

(***************************************************************************)
(* Specifications                                                          *)
(***************************************************************************)
LayoutIdle ==
    /\ input = <<>> /\ sec_no = 0 /\ region = <<>>
    /\ location_prototypes = <<>> /\ portal_prototypes = <<>>
    /\ cols = 0 /\ rows = 0 /\ map_rows = <<>>
    /\ opened = FALSE /\ out = <<>> /\ num_locations = 0
    /\ pc = "idle"

\* Layout() in __main__: the attributes after __init__ (cols and rows do
\* not exist yet; 0 stands for that).
LayoutNew ==
    /\ sec_no = 0 /\ region = <<>>
    /\ location_prototypes = <<>> /\ portal_prototypes = <<>>
    /\ cols = 0 /\ rows = 0 /\ map_rows = <<>>
    /\ opened = FALSE /\ out = <<>> /\ num_locations = 0
    /\ pc = "parse"

FormatIdle ==
    /\ fmt_in = <<>> /\ fmt_text = <<>> /\ fmt_lines = <<>>
    /\ fmt_result = <<>> /\ fmt_pc = "idle"

\* The whole program on a layout file.
Init ==
    /\ input \in WellFormedInputs \cup PortalInputs \cup FaultyInputs
    /\ LayoutNew
    /\ SplitIdle
    /\ FormatIdle

Next ==
    \/ ParseRegion
    \/ ParseMap
    \/ ParseLocations
    \/ ParsePortals
    \/ ParseInvalid
    \/ ParseReturn
    \/ OpenOutput
    \/ WriteRegion
    \/ WriteMap
    \/ WritePortalPrototypes
    \/ WriteLocations

Spec == Init /\ [][Next]_vars

\* Layout.parse on a file that holds a map section only.
InitMap ==
    /\ input \in MapInputs
    /\ LayoutNew
    /\ SplitIdle
    /\ FormatIdle

NextMap == ParseMap \/ ParseReturn

SpecMap == InitMap /\ [][NextMap]_vars

\* split_file on a stream of lines.
InitSplit ==
    /\ f_lines \in Files
    /\ line_no = 0 /\ sections = <<>> /\ section = <<>> /\ block = <<>>
    /\ split_pc = "loop"
    /\ LayoutIdle
    /\ FormatIdle

NextSplit ==
    SplitComment \/ SplitBlank \/ SplitMarker \/ SplitData \/ SplitReturn

SpecSplit == InitSplit /\ [][NextSplit]_vars

\* format_exits on a list of exits.
InitFormat ==
    /\ fmt_in \in FormatInputs
    /\ fmt_text = <<>> /\ fmt_lines = <<>> /\ fmt_result = <<>>
    /\ fmt_pc = "start"
    /\ LayoutIdle
    /\ SplitIdle

NextFormat == FormatStart \/ FormatWrap \/ FormatFits \/ FormatBreak

SpecFormat == InitFormat /\ [][NextFormat]_vars

(***************************************************************************)
(* Properties of split_file (under SpecSplit)                              *)
(***************************************************************************)
\* Line n of the file (1-based) is a section marker for split_file.
IsMarkerLine(n) ==
    LET line == rstrip(f_lines[n]) IN
    ~startswith(line, Hash) /\ startswith(line, Marker)

\* Number of marker lines among the first n lines.
MarkersUpTo(n) == Cardinality({ m \in 1..n : IsMarkerLine(m) })

\* C1: a line starting with "!!" closes the open block: right after the
\* loop has handled a marker line no block is open, and in the returned
\* sections every line of a block of the k-th section was read after the
\* k-th marker and before the next one.
C1_MarkerClosesBlock ==
    /\ (split_pc = "loop" /\ line_no > 0 /\ IsMarkerLine(line_no))
           => block = <<>>
    /\ split_pc = "done" =>
           \A k \in 1..Len(sections) :
               \A b \in 2..Len(sections[k]) :
                   \A l \in 1..Len(sections[k][b]) :
                       \E n \in 1..Len(f_lines) :
                           /\ MarkersUpTo(n) = k
                           /\ ~IsMarkerLine(n)
                           /\ rstrip(f_lines[n]) = sections[k][b][l]

(***************************************************************************)
(* Properties of parse_map (under SpecMap)                                 *)
(***************************************************************************)
\* The blocks of the map section that is the whole input of SpecMap.
GivenMapBlocks == Tail(input[1])

\* parse_map has run on the given blocks.
MapParsed == sec_no = 1

EvenLineCount(blk) == Len(blk) % 2 = 0

SomeEvenLine(blk) == \E k \in 1..Len(blk) : Len(blk[k]) % 2 = 0

\* Some letter row (a line at an even 0-based index) has even length.
SomeEvenLetterRow(blk) ==
    \E k \in 1..Len(blk) : (k - 1) % 2 = 0 /\ Len(blk[k]) % 2 = 0

MapRejected == pc = "failed" /\ map_rows = <<>>

\* C2 as stated: every block with an even number of lines or with any
\* line of even length is rejected before map_rows is assigned.
C2_RejectsAnyEvenLine ==
    (MapParsed /\ Len(GivenMapBlocks) = 1
        /\ (EvenLineCount(GivenMapBlocks[1]) \/ SomeEvenLine(GivenMapBlocks[1])))
    => MapRejected

\* C2 amended: a single block is rejected, before map_rows is assigned,
\* exactly when it has an even number of lines or a letter row of even
\* length; a connector row of even length does not reject it.
C2_RejectsEvenLetterRow ==
    (MapParsed /\ Len(GivenMapBlocks) = 1) =>
        /\ (EvenLineCount(GivenMapBlocks[1]) \/ SomeEvenLetterRow(GivenMapBlocks[1]))
               => MapRejected
        /\ ~(EvenLineCount(GivenMapBlocks[1]) \/ SomeEvenLetterRow(GivenMapBlocks[1]))
               => (pc # "failed" /\ map_rows # <<>>)

C2_Witness ==
    /\ MapParsed /\ Len(GivenMapBlocks) = 1
    /\ ~EvenLineCount(GivenMapBlocks[1])
    /\ SomeEvenLetterRow(GivenMapBlocks[1])
    /\ Len(GivenMapBlocks[1]) = 3
    /\ Len(GivenMapBlocks[1][1]) % 2 = 1
    /\ MapRejected

\* C9: after parse_map accepts a block there are 2*rows+3 padded rows, all
\* of width 2*cols+3, and for every cell and every direction the connector
\* index and the destination index lie inside the buffer.
C9_NeighboursInsideBuffer ==
    map_rows # <<>> =>
        /\ Len(map_rows) = 2 * rows + 3
        /\ \A k \in 1..Len(map_rows) : Len(map_rows[k]) = 2 * cols + 3
        /\ \A i \in 0..(cols - 1), j \in 0..(rows - 1), d \in 1..Len(exit_directions) :
               LET x == 2 + 2 * i
                   y == 2 + 2 * j
                   dx == exit_directions[d][1]
                   dy == exit_directions[d][2]
               IN  /\ 0 <= y + dy /\ y + dy < Len(map_rows)
                   /\ 0 <= y + 2 * dy /\ y + 2 * dy < Len(map_rows)
                   /\ 0 <= x + dx /\ x + dx < Len(map_rows[y + dy + 1])
                   /\ 0 <= x + 2 * dx /\ x + 2 * dx < Len(map_rows[y + 2 * dy + 1])

\* An accepted block with a connector row of even length and rows of
\* different lengths.
C9_Witness ==
    /\ map_rows # <<>>
    /\ Len(GivenMapBlocks[1]) = 3
    /\ Len(GivenMapBlocks[1][2]) % 2 = 0
    /\ Len(GivenMapBlocks[1][2]) > Len(GivenMapBlocks[1][1])
    /\ Len(GivenMapBlocks[1][3]) > Len(GivenMapBlocks[1][2])
    /\ cols >= 1 /\ rows = 2

(***************************************************************************)
(* Properties of the whole program (under Spec)                            *)
(***************************************************************************)
\* The character at buffer position (x, y) of the padded grid.
BufferChar(x, y) == map_rows[y + 1][x + 1]

\* The letter of cell (i, j) and the cells write_locations makes instances of.
CellLetter(i, j) == BufferChar(2 + 2 * i, 2 + 2 * j)

OccupiedCells ==
    { c \in (0..(cols - 1)) \X (0..(rows - 1)) :
        CellLetter(c[1], c[2]) \notin {" ", "."} }

\* The eight directions in the order the exits are to be listed in.
Compass ==
    << <<<<"n", "o", "r", "t", "h", "w", "e", "s", "t">>, -1, -1>>, <<<<"w", "e", "s", "t">>, -1, 0>>, <<<<"s", "o", "u", "t", "h", "w", "e", "s", "t">>, -1, 1>>,
       <<<<"n", "o", "r", "t", "h">>, 0, -1>>, <<<<"s", "o", "u", "t", "h">>, 0, 1>>,
       <<<<"n", "o", "r", "t", "h", "e", "a", "s", "t">>, 1, -1>>, <<<<"e", "a", "s", "t">>, 1, 0>>, <<<<"s", "o", "u", "t", "h", "e", "a", "s", "t">>, 1, 1>> >>

\* Direction k of cell (i, j) is connected: its connector cell is non-blank.
Connected(i, j, k) ==
    BufferChar(2 + 2 * i + Compass[k][2], 2 + 2 * j + Compass[k][3]) # " "

ConnectedDirs(i, j) == { k \in 1..Len(Compass) : Connected(i, j, k) }

\* The n-th connected direction of cell (i, j), in compass order.
NthConnected(i, j, n) ==
    CHOOSE k \in ConnectedDirs(i, j) :
        Cardinality({ m \in ConnectedDirs(i, j) : m <= k }) = n

DestLetter(i, j, k) ==
    BufferChar(2 + 2 * i + 2 * Compass[k][2], 2 + 2 * j + 2 * Compass[k][3])

\* The two letters as a portal key: the smaller code point first.
PairKey(a, b) == IF ord(a) <= ord(b) THEN <<a, b>> ELSE <<b, a>>

\* The exit in direction k can be resolved: the destination letter has a
\* location prototype and the pair has a portal prototype.
Resolvable(i, j, k) ==
    /\ DictHas(location_prototypes, <<DestLetter(i, j, k)>>)
    /\ DictHas(portal_prototypes, PairKey(CellLetter(i, j), DestLetter(i, j, k)))

ExpectedExit(i, j, k) ==
    << DictGet(portal_prototypes,
               PairKey(CellLetter(i, j), DestLetter(i, j, k)))[1],
       Compass[k][1],
       location_label(DestLetter(i, j, k), i + Compass[k][2], j + Compass[k][3]) >>

ExitsOf(c) == get_exits(CellLetter(c[1], c[2]), c[1], c[2])

LabelOf(c) == location_label(CellLetter(c[1], c[2]), c[1], c[2])

\* Cell c reports an exit in the direction called name.
HasDirection(c, name) ==
    /\ ~ExitsOf(c).raised
    /\ \E n \in 1..Len(ExitsOf(c).exits) : ExitsOf(c).exits[n][2] = name

\* Layout.parse has returned with a grid.
ParsedWithGrid == pc = "open" /\ map_rows # <<>>

\* Some occupied cell has a connector to a letter with a location prototype
\* but the pair has no portal prototype.
SomeExitLacksPortal ==
    \E c \in OccupiedCells : \E k \in ConnectedDirs(c[1], c[2]) :
        /\ DictHas(location_prototypes, <<DestLetter(c[1], c[2], k)>>)
        /\ ~DictHas(portal_prototypes,
                    PairKey(CellLetter(c[1], c[2]), DestLetter(c[1], c[2], k)))

\* C3: a run that ends in an error of the taxonomy (a RuntimeError of the
\* parsers, or a connector between letters without portal prototype) has
\* never opened or written the output file.
C3_NoOutputOnFailure ==
    (\/ pc = "failed"
     \/ pc = "crashed" /\ map_rows # <<>> /\ SomeExitLacksPortal)
    => (~opened /\ out = <<>>)

\* The corners of the grid: the connector cell between cells (i, j),
\* (i+1, j), (i, j+1) and (i+1, j+1).
Corners == (0..(cols - 2)) \X (0..(rows - 2))

CornerGlyph(q) == BufferChar(3 + 2 * q[1], 3 + 2 * q[2])

\* The four cells around corner q, each with the name of its direction
\* towards the corner.
AroundCorner(q) ==
    { << <<q[1], q[2]>>, <<"s", "o", "u", "t", "h", "e", "a", "s", "t">> >>,
      << <<q[1] + 1, q[2] + 1>>, <<"n", "o", "r", "t", "h", "w", "e", "s", "t">> >>,
      << <<q[1] + 1, q[2]>>, <<"s", "o", "u", "t", "h", "w", "e", "s", "t">> >>,
      << <<q[1], q[2] + 1>>, <<"n", "o", "r", "t", "h", "e", "a", "s", "t">> >> }

AllFourOccupied(q) == \A a \in AroundCorner(q) : a[1] \in OccupiedCells

\* C4 as stated: one glyph at a corner never connects both diagonals: the
\* four cells around it never all report their exit through the corner.
C4_OneGlyphOneDiagonal ==
    pc = "done" =>
        \A q \in Corners :
            (CornerGlyph(q) # " " /\ AllFourOccupied(q)) =>
                ~(\A a \in AroundCorner(q) : HasDirection(a[1], a[2]))

\* C4 amended: a non-blank glyph at a corner connects both diagonals: in a
\* layout that compiles, every occupied cell around the corner reports its
\* exit towards the corner.
C4_OneGlyphBothDiagonals ==
    pc = "done" =>
        \A q \in Corners :
            CornerGlyph(q) # " " =>
                \A a \in AroundCorner(q) :
                    a[1] \in OccupiedCells => HasDirection(a[1], a[2])

\* A compiled layout with a corner glyph, no other connector around that
\* corner, and the four cells reporting both diagonals.
C4_Witness ==
    /\ pc = "done"
    /\ \E q \in Corners :
        /\ CornerGlyph(q) = "X"
        /\ AllFourOccupied(q)
        /\ BufferChar(3 + 2 * q[1], 2 + 2 * q[2]) = " "
        /\ BufferChar(3 + 2 * q[1], 4 + 2 * q[2]) = " "
        /\ BufferChar(2 + 2 * q[1], 3 + 2 * q[2]) = " "
        /\ BufferChar(4 + 2 * q[1], 3 + 2 * q[2]) = " "
        /\ \A a \in AroundCorner(q) : HasDirection(a[1], a[2])

\* C6: for every occupied cell of a parsed grid get_exits returns exactly
\* the connected directions in compass order, each with the portal name
\* stored under the sorted letter pair and the label of the neighbour; it
\* raises exactly when some connected direction cannot be resolved.
C6_ExitsInCompassOrder ==
    ParsedWithGrid =>
        \A c \in OccupiedCells :
            LET i == c[1]
                j == c[2]
                r == ExitsOf(c)
            IN  /\ r.raised <=> \E k \in ConnectedDirs(i, j) : ~Resolvable(i, j, k)
                /\ ~r.raised =>
                       /\ Len(r.exits) = Cardinality(ConnectedDirs(i, j))
                       /\ \A n \in 1..Len(r.exits) :
                              r.exits[n] = ExpectedExit(i, j, NthConnected(i, j, n))

\* A cell of letter B with at least two exits, one of them to a cell of
\* letter A.
C6_Witness ==
    /\ ParsedWithGrid
    /\ \E c \in OccupiedCells :
        /\ CellLetter(c[1], c[2]) = "B"
        /\ ~ExitsOf(c).raised
        /\ Len(ExitsOf(c).exits) >= 2
        /\ \E k \in ConnectedDirs(c[1], c[2]) : DestLetter(c[1], c[2], k) = "A"

\* The block of the map section as given in the input.
RawBlock == Tail(input[CHOOSE k \in 1..Len(input) : Head(input[k]) = MapName])[1]

RawLetter(i, j) ==
    IF 2 * i + 1 <= Len(RawBlock[2 * j + 1]) THEN RawBlock[2 * j + 1][2 * i + 1]
    ELSE " "

\* The letter positions of the block whose character is neither blank nor ".".
RawOccupiedCells ==
    { c \in (0..cols) \X (0..(Len(RawBlock) \div 2)) :
        RawLetter(c[1], c[2]) \notin {" ", "."} }

\* Every letter of an occupied cell has a location prototype and every
\* connector of an occupied cell can be resolved.
ValidLayout ==
    \A c \in RawOccupiedCells :
        /\ DictHas(location_prototypes, <<RawLetter(c[1], c[2])>>)
        /\ \A k \in ConnectedDirs(c[1], c[2]) : Resolvable(c[1], c[2], k)

IsLocationDefinition(item) ==
    item.kind = "def" /\ startswith(item.prefix, <<"d", "e", "f", " ", "l", "o", "c", "a", "t", "i", "o", "n", " ">>)

LocationDefinitions == SelectSeq(out, IsLocationDefinition)

ReachedWriteLocations ==
    \E n \in 1..Len(out) : out[n] = Text(<<"/", "/", "#", " ", "p", "o", "r", "t", "a", "l", " ", "p", "r", "o", "t", "o", "t", "y", "p", "e", "s">>)

\* C7: for a valid layout write_locations ends normally, and when it does
\* the location instances written are one per occupied cell: as many as
\* there are letter positions that are neither blank nor ".", each cell's
\* label exactly once.
C7_OneInstancePerCell ==
    /\ (pc = "crashed" /\ ReachedWriteLocations) => ~ValidLayout
    /\ pc = "done" =>
        /\ Len(LocationDefinitions) = Cardinality(RawOccupiedCells)
        /\ num_locations = Cardinality(RawOccupiedCells)
        /\ \A c \in RawOccupiedCells :
               Cardinality({ n \in 1..Len(LocationDefinitions) :
                   LocationDefinitions[n].prefix
                       = <<"d", "e", "f", " ", "l", "o", "c", "a", "t", "i", "o", "n", " ">>
                           \o location_label(RawLetter(c[1], c[2]), c[1], c[2])
                           \o <<":", " ">>
                           \o DictGet(location_prototypes,
                                      <<RawLetter(c[1], c[2])>>)[1] }) = 1

\* A compiled layout with three instances and a "." cell.
C7_Witness ==
    /\ pc = "done"
    /\ Cardinality(RawOccupiedCells) = 3
    /\ Len(LocationDefinitions) = 3
    /\ \E i \in 0..(cols - 1), j \in 0..(rows - 1) : RawLetter(i, j) = "."

Opposite(name) ==
    CASE name = <<"n", "o", "r", "t", "h">> -> <<"s", "o", "u", "t", "h">>
      [] name = <<"s", "o", "u", "t", "h">> -> <<"n", "o", "r", "t", "h">>
      [] name = <<"e", "a", "s", "t">> -> <<"w", "e", "s", "t">>
      [] name = <<"w", "e", "s", "t">> -> <<"e", "a", "s", "t">>
      [] name = <<"n", "o", "r", "t", "h", "e", "a", "s", "t">> -> <<"s", "o", "u", "t", "h", "w", "e", "s", "t">>
      [] name = <<"s", "o", "u", "t", "h", "w", "e", "s", "t">> -> <<"n", "o", "r", "t", "h", "e", "a", "s", "t">>
      [] name = <<"n", "o", "r", "t", "h", "w", "e", "s", "t">> -> <<"s", "o", "u", "t", "h", "e", "a", "s", "t">>
      [] name = <<"s", "o", "u", "t", "h", "e", "a", "s", "t">> -> <<"n", "o", "r", "t", "h", "w", "e", "s", "t">>

\* C10: in a layout that compiles, an exit (p, d, label of B) of cell A is
\* matched by the exit (p, opposite of d, label of A) of cell B.
C10_ExitsAreSymmetric ==
    pc = "done" =>
        \A a \in OccupiedCells, b \in OccupiedCells :
            \A n \in 1..Len(ExitsOf(a).exits) :
                ExitsOf(a).exits[n][3] = LabelOf(b) =>
                    \E m \in 1..Len(ExitsOf(b).exits) :
                        ExitsOf(b).exits[m]
                            = << ExitsOf(a).exits[n][1],
                                 Opposite(ExitsOf(a).exits[n][2]),
                                 LabelOf(a) >>

\* A compiled layout with a diagonal exit between a cell of letter A and a
\* cell of letter B.
C10_Witness ==
    /\ pc = "done"
    /\ \E a \in OccupiedCells :
        /\ CellLetter(a[1], a[2]) = "B"
        /\ \E n \in 1..Len(ExitsOf(a).exits) :
            /\ ExitsOf(a).exits[n][2] = <<"s", "o", "u", "t", "h", "w", "e", "s", "t">>
            /\ \E b \in OccupiedCells :
                /\ CellLetter(b[1], b[2]) = "A"
                /\ ExitsOf(a).exits[n][3] = LabelOf(b)

\* The definitions write_portal_prototypes has just written.
PortalDefinitions ==
    LET start == CHOOSE n \in 1..Len(out) : out[n] = Text(<<"/", "/", "#", " ", "p", "o", "r", "t", "a", "l", " ", "p", "r", "o", "t", "o", "t", "y", "p", "e", "s">>)
    IN  SubSeq(out, start + 1, Len(out))

PortalNames == { portal_prototypes[n][2][1] : n \in 1..Len(portal_prototypes) }

EntriesNamed(name) ==
    { n \in 1..Len(portal_prototypes) : portal_prototypes[n][2][1] = name }

FirstNamed(name) ==
    portal_prototypes[CHOOSE n \in EntriesNamed(name) :
                          \A m \in EntriesNamed(name) : n <= m][2]

LastNamed(name) ==
    portal_prototypes[CHOOSE n \in EntriesNamed(name) :
                          \A m \in EntriesNamed(name) : n >= m][2]

EntityDefinition(proto) ==
    Definition(<<"d", "e", "f", " ", "e", "n", "t", "i", "t", "y", " ">> \o proto[1] \o <<":", " ">> \o proto[2],
               SubSeq(proto, 3, Len(proto)))

WrittenOnce(def) ==
    Cardinality({ n \in 1..Len(PortalDefinitions) : PortalDefinitions[n] = def }) = 1

\* C5 as stated: one definition per distinct portal name, with the base
\* prototype and attributes of the first entry of that name.
C5_FirstSeenAttributes ==
    pc = "write_locations" =>
        /\ Len(PortalDefinitions) = Cardinality(PortalNames)
        /\ \A name \in PortalNames : WrittenOnce(EntityDefinition(FirstNamed(name)))

\* C5 amended: one definition per distinct portal name, with the base
\* prototype and attributes of the entry that is last in the table among
\* those of that name.
C5_LastInTableAttributes ==
    pc = "write_locations" =>
        /\ Len(PortalDefinitions) = Cardinality(PortalNames)
        /\ \A name \in PortalNames : WrittenOnce(EntityDefinition(LastNamed(name)))

\* Two keys from different portal blocks carry one name with different
\* attribute lines.
C5_Witness ==
    /\ pc = "write_locations"
    /\ Len(PortalDefinitions) = 1
    /\ \E name \in PortalNames : FirstNamed(name) # LastNamed(name)

(***************************************************************************)
(* Properties of format_exits (under SpecFormat)                           *)
(***************************************************************************)
\* A continuation line without its indentation.
Unindented(line) == SubSeq(line, Len(ContinuationIndent) + 1, Len(line))

\* The text that was still to be laid out when line k was produced: line k
\* followed by the later lines without their indentation.
RECURSIVE TextFrom(_, _)
TextFrom(lines, k) ==
    IF k = Len(lines) THEN lines[k]
    ELSE lines[k] \o Unindented(TextFrom(lines, k + 1))

NoCommaWithin(text, from, to) ==
    \A n \in from..to : n <= Len(text) => text[n] # ","

\* C8: the returned lines, joined again without the indentation of the
\* continuation lines, are the formatted text; a text of at most 90
\* characters stays one line; every line that ends in a break ends with the
\* last comma of the first 90 characters of what was left, so it is at most
\* 90 long; every continuation line starts with the 10 blanks; and the last
\* line is longer than 90 only if its first 90 characters hold no comma.
C8_WrapsAtLastComma ==
    fmt_pc = "done" =>
        /\ fmt_result = join(<<"\n">>, fmt_lines)
        /\ Len(fmt_lines) >= 1
        /\ TextFrom(fmt_lines, 1) = ExitsText(fmt_in)
        /\ Len(ExitsText(fmt_in)) <= 90 => fmt_lines = <<ExitsText(fmt_in)>>
        /\ \A k \in 2..Len(fmt_lines) :
               /\ Len(fmt_lines[k]) >= 10
               /\ SubSeq(fmt_lines[k], 1, 10) = [n \in 1..10 |-> " "]
        /\ \A k \in 1..(Len(fmt_lines) - 1) :
               /\ Len(fmt_lines[k]) <= 90
               /\ fmt_lines[k][Len(fmt_lines[k])] = ","
               /\ Len(TextFrom(fmt_lines, k)) > 90
               /\ NoCommaWithin(TextFrom(fmt_lines, k), Len(fmt_lines[k]) + 1, 90)
        /\ Len(fmt_lines[Len(fmt_lines)]) > 90
               => NoCommaWithin(fmt_lines[Len(fmt_lines)], 1, 90)

\* A text broken twice whose last line is still oversized.
C8_Witness ==
    /\ fmt_pc = "done"
    /\ Len(fmt_lines) = 3
    /\ Len(fmt_lines[3]) > 90
====
